---- MODULE Spec2Model ----
(***************************************************************************)
(* Model of sktime/datatypes/_check.py: the registry check_dict and the    *)
(* three operations check_is, check_raise and mtype.                       *)
(*                                                                         *)
(* Python values are tagged records, so that None, strings, integers,      *)
(* booleans, lists, tuples and dicts stay distinct values.                 *)
(***************************************************************************)
EXTENDS Integers, Sequences, FiniteSets, TLC

VARIABLES check_dict, built, pc, call, outcome, ncalls

vars == <<check_dict, built, pc, call, outcome, ncalls>>

\* Longest list passed as the mtype argument.
MaxLen == 2

\* Number of calls made in a run.
MaxCalls == 2

----------------------------------------------------------------------------
\* Python values

PyNone == [none |-> TRUE]
PyStr(s) == [str |-> s]
PyInt(n) == [int |-> n]
PyBool(b) == [bool |-> b]
PyList(l) == [list |-> l]
PyTuple(t) == [tuple |-> t]

IsStr(x) == "str" \in DOMAIN x
IsList(x) == "list" \in DOMAIN x

\* The mtypes and scitypes of the model: A and B are Series mtypes, P is a
\* Panel mtype; Other is a scitype no checker is registered under.
Mtypes == {"A", "B", "P"}
Scitypes == {"Series", "Panel", "Other"}

\* An object is None or not, and is characterised by the mtypes whose checker
\* accepts it (the checkers themselves are external to _check.py).
Objs == [none : BOOLEAN, acc : SUBSET Mtypes]

----------------------------------------------------------------------------
\* External collaborators

\* mtype_to_scitype of sktime.datatypes._registry: the scitype an mtype
\* belongs to.
mtype_to_scitype(m) ==
    IF m = PyStr("P") THEN PyStr("Panel") ELSE PyStr("Series")

\* The text of the error message the checker registered under key gives for
\* the variable named var_name.
CheckerMsg(key, var_name) == PyStr(<<key[1].str, key[2].str, var_name>>)

\* The metadata the checker registered under key computes.
CheckerMetadata(key, obj) == [dict |-> <<key[1].str, key[2].str>>]

\* check_dict[key](obj, return_metadata=..., var_name=...): a bool, or the
\* triple (valid, msg, metadata) when return_metadata is set.
Checker(key, obj, return_metadata, var_name) ==
    LET valid == key[1].str \in obj.acc
    IN  IF ~return_metadata THEN PyBool(valid)
        ELSE IF valid
             THEN PyTuple(<<PyBool(TRUE), PyNone, CheckerMetadata(key, obj)>>)
             ELSE PyTuple(<<PyBool(FALSE), CheckerMsg(key, var_name), PyNone>>)

----------------------------------------------------------------------------
\* The registry: a dict, modelled as the sequence of its keys in insertion
\* order (the checker stored under a key is identified by the key).

Keys(d) == {d[i] : i \in DOMAIN d}

RECURSIVE DictUpdate(_, _)
\* dict.update: keys already present keep their place, new keys are appended.
DictUpdate(d, other) ==
    IF other = <<>> THEN d
    ELSE DictUpdate(IF Head(other) \in Keys(d) THEN d ELSE Append(d, Head(other)),
                    Tail(other))

\* The sub-registries check_dict_Series and check_dict_Panel can hold.
SeriesDicts ==
    { <<>>, <<<<PyStr("A"), PyStr("Series")>>>>, <<<<PyStr("B"), PyStr("Series")>>>>,
      <<<<PyStr("A"), PyStr("Series")>>, <<PyStr("B"), PyStr("Series")>>>> }

PanelDicts == { <<>>, <<<<PyStr("P"), PyStr("Panel")>>>> }

BuildCheckDict(check_dict_Series, check_dict_Panel) ==
    DictUpdate(DictUpdate(<<>>, check_dict_Series), check_dict_Panel)

----------------------------------------------------------------------------
\* Outcomes of a call: a returned value or a raised exception, with the trace
\* of the calls made to the collaborators and of the registry lookups.

Event(ev, arg) == [ev |-> ev, arg |-> arg]

Return(val, trace) == [kind |-> "return", val |-> val, trace |-> trace]

Raise(exc, site, arg, trace) ==
    [kind |-> "raise", val |-> [exc |-> exc, site |-> site, arg |-> arg],
     trace |-> trace]

----------------------------------------------------------------------------
\* check_is

\* The inner function ret of check_is.
ret(valid, msg, metadata, return_metadata) ==
    IF return_metadata THEN PyTuple(<<valid, msg, metadata>>) ELSE valid

\* The argument check without the test of the list elements.
NormalizeMtypeUnchecked(mtype) ==
    IF IsStr(mtype) THEN [ok |-> TRUE, list |-> <<mtype>>]
    ELSE IF IsList(mtype) THEN [ok |-> TRUE, list |-> mtype.list]
         ELSE [ok |-> FALSE, site |-> 81]

\* The argument check of check_is: the list of mtypes to try, or the
\* ValueError raised.
NormalizeMtype(mtype) ==
    IF IsStr(mtype) THEN [ok |-> TRUE, list |-> <<mtype>>]
    ELSE IF IsList(mtype)
         THEN IF \A i \in DOMAIN mtype.list : IsStr(mtype.list[i])
              THEN [ok |-> TRUE, list |-> mtype.list]
              ELSE [ok |-> FALSE, site |-> 79]
         ELSE [ok |-> FALSE, site |-> 81]

\* Whether the result res of a checker signals that the check passed.
CheckPassed(res, return_metadata) ==
    IF return_metadata THEN res.tuple[1].bool ELSE res.bool

\* The messages collected so far, after the checker returned res.
Collect(msg, res, return_metadata) ==
    IF return_metadata THEN Append(msg, res.tuple[2]) ELSE msg

\* The scitype the local variable scitype holds after the iteration for m.
ScitypeAfter(scitype, m) ==
    IF scitype = PyNone THEN mtype_to_scitype(m) ELSE scitype

\* msg as returned when no mtype passed.
FinalMsg(msg) == IF Len(msg) = 1 THEN msg[1] ELSE PyList(msg)

\* An unregistered key taken as a failed check: the loop ends with invalid.
NoCheckDefinedAsInvalid(m, scitype, msg, return_metadata, trace) ==
    Return(ret(PyBool(FALSE), FinalMsg(msg), PyNone, return_metadata), trace)

\* What the loop does when (m, scitype) is not a key of the registry.
NoCheckDefined(m, scitype, msg, return_metadata, trace) ==
    Raise("TypeError", 92, <<m, scitype>>, trace)

\* What the loop does once the checker of key is found in the registry.
Dispatch(key, obj, return_metadata, var_name) ==
    Checker(key, obj, return_metadata, var_name)

RECURSIVE CheckIsLoop(_, _, _, _, _)
\* The for loop of check_is from position i on; loc holds the local
\* variables scitype, msg and the trace so far.
CheckIsLoop(d, a, mtype, i, loc) ==
    IF i > Len(mtype)
    THEN Return(ret(PyBool(FALSE), FinalMsg(loc.msg), PyNone, a.return_metadata),
                loc.trace)
    ELSE LET m == mtype[i]
             scitype == ScitypeAfter(loc.scitype, m)
             tr1 == IF loc.scitype = PyNone
                    THEN Append(loc.trace, Event("mtype_to_scitype", <<m>>))
                    ELSE loc.trace
             key == <<m, scitype>>
             tr2 == Append(tr1, Event("lookup", key))
         IN  IF key \notin Keys(d)
             THEN NoCheckDefined(m, scitype, loc.msg, a.return_metadata, tr2)
             ELSE LET res == Dispatch(key, a.obj, a.return_metadata, a.var_name)
                      tr3 == Append(tr2, Event("check", key))
                  IN  IF CheckPassed(res, a.return_metadata)
                      THEN Return(res, tr3)
                      ELSE CheckIsLoop(d, a, mtype, i + 1,
                               [scitype |-> scitype,
                                msg |-> Collect(loc.msg, res, a.return_metadata),
                                trace |-> tr3])

\* check_is(obj, mtype, scitype, return_metadata, var_name) on registry d;
\* a is the record of the arguments.
check_is(d, a) ==
    LET n == NormalizeMtype(a.mtype)
    IN  IF ~n.ok
        THEN Raise("ValueError", n.site, PyNone, <<>>)
        ELSE CheckIsLoop(d, a, n.list, 1,
                         [scitype |-> a.scitype, msg |-> <<>>, trace |-> <<>>])

----------------------------------------------------------------------------
\* check_raise

\* check_raise handing on the validity instead of raising.
RaiseOrTrueReturnsValid(r) ==
    IF r.kind = "raise" THEN r ELSE Return(r.val.tuple[1], r.trace)

\* What check_raise makes of the outcome r of its call of check_is.
RaiseOrTrue(r) ==
    IF r.kind = "raise" THEN r
    ELSE IF r.val.tuple[1].bool
         THEN Return(PyBool(TRUE), r.trace)
         ELSE Raise("TypeError", 147, r.val.tuple[2], r.trace)

\* check_raise(obj, mtype, scitype, var_name) on registry d.
check_raise(d, a) ==
    RaiseOrTrue(check_is(d, [obj |-> a.obj, mtype |-> a.mtype,
                             scitype |-> a.scitype, return_metadata |-> TRUE,
                             var_name |-> a.var_name]))

----------------------------------------------------------------------------
\* mtype

RECURSIVE MtypesOf(_, _)
\* The mtypes registered under as_scitype, in the order of the registry.
MtypesOf(d, as_scitype) ==
    IF d = <<>> THEN <<>>
    ELSE (IF Head(d)[2] = as_scitype THEN <<Head(d)[1]>> ELSE <<>>)
         \o MtypesOf(Tail(d), as_scitype)

RECURSIVE Traces(_)
\* The traces of a sequence of outcomes, one after the other.
Traces(rs) == IF rs = <<>> THEN <<>> ELSE Head(rs).trace \o Traces(Tail(rs))

\* The positions of the outcomes that are a returned True.
Passed(rs) == {i \in DOMAIN rs : rs[i].kind = "return" /\ rs[i].val = PyBool(TRUE)}

\* The end of mtype without the test for more than one match.
IdentifyFirst(mtypes, rs) ==
    LET res == Passed(rs)
    IN  IF Cardinality(res) < 1
        THEN Raise("TypeError", 185, PyStr(<<>>), Traces(rs))
        ELSE Return(mtypes[CHOOSE i \in res : \A j \in res : i <= j], Traces(rs))

\* The end of mtype: mtypes are the candidates and rs the outcomes of their
\* check_is calls.
Identify(mtypes, rs) ==
    LET res == Passed(rs)
    IN  IF Cardinality(res) > 1
        THEN Raise("TypeError", 182, {mtypes[i] : i \in res}, Traces(rs))
        ELSE IF Cardinality(res) < 1
             THEN Raise("TypeError", 185, PyStr(<<>>), Traces(rs))
             ELSE Return(mtypes[CHOOSE i \in res : TRUE], Traces(rs))

\* mtype without the test for None.
PassThroughNever(obj) == FALSE

\* Whether mtype(obj, ...) returns before looking at the registry.
PassThrough(obj) == obj.none

\* mtype(obj, as_scitype) on registry d.  With as_scitype None and obj not
\* None the TypeError of line 173 comes from adding None to a string.
mtype(d, a) ==
    IF PassThrough(a.obj) THEN Return(PyNone, <<>>)
    ELSE LET valid_as_scitypes == {k[2] : k \in Keys(d)}
         IN  IF a.as_scitype \notin valid_as_scitypes
             THEN Raise("TypeError", 173, a.as_scitype, <<>>)
             ELSE LET mtypes == MtypesOf(d, a.as_scitype)
                      is_mtype ==
                          [i \in DOMAIN mtypes |->
                              check_is(d, [obj |-> a.obj, mtype |-> mtypes[i],
                                           scitype |-> a.as_scitype,
                                           return_metadata |-> FALSE,
                                           var_name |-> "obj"])]
                  IN  Identify(mtypes, is_mtype)

----------------------------------------------------------------------------
\* The arguments the calls are made with

RECURSIVE ListsUpTo(_, _)
ListsUpTo(S, n) ==
    IF n = 0 THEN {<<>>}
    ELSE ListsUpTo(S, n - 1) \cup [1..n -> S]

\* List elements: the mtype names and a non-string.
Elems == {PyStr(m) : m \in Mtypes} \cup {PyInt(123)}

MtypeArgs ==
    {PyStr(m) : m \in Mtypes}
    \cup {PyInt(123), PyTuple(<<PyStr("A"), PyStr("B")>>)}
    \cup {PyList(l) : l \in ListsUpTo(Elems, MaxLen)}

ScitypeArgs == {PyNone} \cup {PyStr(s) : s \in Scitypes}

VarNames == {"obj", "input"}

NoCall == [op |-> "none"]
NoOutcome == [kind |-> "none"]

----------------------------------------------------------------------------
\* The state machine: the registry is built at import, then calls are made
\* one after the other.

Init ==
    /\ \E s \in SeriesDicts, p \in PanelDicts : check_dict = BuildCheckDict(s, p)
    /\ built = check_dict
    /\ pc = "idle"
    /\ call = NoCall
    /\ outcome = NoOutcome
    /\ ncalls = 0

CheckIsCall ==
    /\ pc = "idle"
    /\ ncalls < MaxCalls
    /\ \E obj \in Objs, m \in MtypeArgs, s \in ScitypeArgs,
          rm \in BOOLEAN, vn \in VarNames :
          LET a == [op |-> "check_is", obj |-> obj, mtype |-> m, scitype |-> s,
                    return_metadata |-> rm, var_name |-> vn]
          IN  /\ call' = a
              /\ outcome' = check_is(check_dict, a)
    /\ pc' = "done"
    /\ ncalls' = ncalls + 1
    /\ UNCHANGED <<check_dict, built>>

CheckRaiseCall ==
    /\ pc = "idle"
    /\ ncalls < MaxCalls
    /\ \E obj \in Objs, m \in MtypeArgs, s \in ScitypeArgs, vn \in VarNames :
          LET a == [op |-> "check_raise", obj |-> obj, mtype |-> m,
                    scitype |-> s, var_name |-> vn]
          IN  /\ call' = a
              /\ outcome' = check_raise(check_dict, a)
    /\ pc' = "done"
    /\ ncalls' = ncalls + 1
    /\ UNCHANGED <<check_dict, built>>

\* mtype consuming the registry entry it looks at first.
MtypeCallConsuming ==
    /\ pc = "idle"
    /\ ncalls < MaxCalls
    /\ \E obj \in Objs, s \in ScitypeArgs :
          LET a == [op |-> "mtype", obj |-> obj, as_scitype |-> s]
          IN  /\ call' = a
              /\ outcome' = mtype(check_dict, a)
    /\ pc' = "done"
    /\ ncalls' = ncalls + 1
    /\ check_dict' = IF check_dict = <<>> THEN <<>> ELSE Tail(check_dict)
    /\ UNCHANGED built

MtypeCall ==
    /\ pc = "idle"
    /\ ncalls < MaxCalls
    /\ \E obj \in Objs, s \in ScitypeArgs :
          LET a == [op |-> "mtype", obj |-> obj, as_scitype |-> s]
          IN  /\ call' = a
              /\ outcome' = mtype(check_dict, a)
    /\ pc' = "done"
    /\ ncalls' = ncalls + 1
    /\ UNCHANGED <<check_dict, built>>

\* The caller takes the outcome; the next call can be made.
Done ==
    /\ pc = "done"
    /\ pc' = "idle"
    /\ call' = NoCall
    /\ outcome' = NoOutcome
    /\ UNCHANGED <<check_dict, built, ncalls>>

Next == CheckIsCall \/ CheckRaiseCall \/ MtypeCall \/ Done

Spec == Init /\ [][Next]_vars

----------------------------------------------------------------------------
\* Vocabulary of the properties

\* The error classes, by the statement that raises.
Raised(o, exc, sites) ==
    o.kind = "raise" /\ o.val.exc = exc /\ o.val.site \in sites

InputError(o) == Raised(o, "ValueError", {79, 81})
DispatchError(o) == Raised(o, "TypeError", {92, 173, 185})
ValidationError(o) == Raised(o, "TypeError", {147})
InternalConsistencyError(o) == Raised(o, "TypeError", {182})

CheckIsDone == pc = "done" /\ call.op = "check_is"
CheckRaiseDone == pc = "done" /\ call.op = "check_raise"
MtypeDone == pc = "done" /\ call.op = "mtype"

\* The mtype argument is a string or a list of strings.
WellFormed(a) ==
    \/ IsStr(a.mtype)
    \/ IsList(a.mtype) /\ \A i \in DOMAIN a.mtype.list : IsStr(a.mtype.list[i])

\* The mtypes asked for, in order.
TagList(a) == IF IsStr(a.mtype) THEN <<a.mtype>> ELSE a.mtype.list

\* The registry key documented for mtype m of call a: the scitype given, or
\* the scitype of m itself.
DocKey(a, m) ==
    <<m, IF a.scitype = PyNone THEN mtype_to_scitype(m) ELSE a.scitype>>

Registered(a, m) == DocKey(a, m) \in Keys(check_dict)

\* The result of the checker documented for m, and whether it accepts.
CheckerResult(a, m) ==
    Checker(DocKey(a, m), a.obj, a.return_metadata, a.var_name)

Accepts(a, m) == CheckPassed(CheckerResult(a, m), a.return_metadata)

IsCheck(e) == e.ev = "check"
IsLookup(e) == e.ev = "lookup"
Checks(o) == SelectSeq(o.trace, IsCheck)
Lookups(o) == SelectSeq(o.trace, IsLookup)

\* The scitype is given, or all mtypes asked for have the scitype of the first.
OneScitype(a) ==
    \/ a.scitype # PyNone
    \/ \A j \in DOMAIN TagList(a) :
          mtype_to_scitype(TagList(a)[j]) = mtype_to_scitype(TagList(a)[1])

\* check_is returned the result of the first accepting checker, after
\* looking up and invoking the checkers before it, in order, and nothing else.
FirstAcceptingWinsFor(a) ==
    \A i \in DOMAIN TagList(a) :
        ( /\ \A j \in 1..i : Registered(a, TagList(a)[j])
          /\ \A j \in 1..(i - 1) : ~Accepts(a, TagList(a)[j])
          /\ Accepts(a, TagList(a)[i]) )
        => /\ outcome.kind = "return"
           /\ outcome.val = CheckerResult(a, TagList(a)[i])
           /\ Checks(outcome) =
                 [j \in 1..i |-> Event("check", DocKey(a, TagList(a)[j]))]
           /\ Lookups(outcome) =
                 [j \in 1..i |-> Event("lookup", DocKey(a, TagList(a)[j]))]

\* The msg documented by the specification when all checkers reject.
AllMessages(a) ==
    LET ms == TagList(a)
        msgs == [j \in 1..Len(ms) |-> CheckerMsg(DocKey(a, ms[j]), a.var_name)]
    IN  IF Len(ms) = 0 THEN PyList(<<>>)
        ELSE IF Len(ms) = 1 THEN msgs[1] ELSE PyList(msgs)

AllRejectFor(a) ==
    ( /\ \A j \in DOMAIN TagList(a) : Registered(a, TagList(a)[j])
      /\ \A j \in DOMAIN TagList(a) : ~Accepts(a, TagList(a)[j]) )
    => /\ outcome.kind = "return"
       /\ outcome.val = IF a.return_metadata
                        THEN PyTuple(<<PyBool(FALSE), AllMessages(a), PyNone>>)
                        ELSE PyBool(FALSE)

----------------------------------------------------------------------------
\* C1: check_is tries the mtypes in the order given and stops at the first
\* whose checker accepts: it returns that checker's result unmodified, the
\* checkers before it were each looked up and invoked once, in order, and
\* nothing is looked up or invoked for the mtypes after it.
C1_FirstAcceptingWins ==
    (CheckIsDone /\ WellFormed(call)) => FirstAcceptingWinsFor(call)

\* The same, for calls that give the scitype or ask for mtypes of one scitype.
FirstAcceptingWinsOneScitype ==
    (CheckIsDone /\ WellFormed(call) /\ OneScitype(call))
        => FirstAcceptingWinsFor(call)

\* C2: with scitype omitted, the key looked up for each mtype of the list is
\* (m, mtype_to_scitype(m)), and a list whose mtypes are all registered under
\* their own scitype never ends in a DispatchError.
C2_ScitypePerMtype ==
    (CheckIsDone /\ WellFormed(call) /\ call.scitype = PyNone)
        => /\ \A i \in DOMAIN Lookups(outcome) :
                Lookups(outcome)[i].arg[2]
                    = mtype_to_scitype(Lookups(outcome)[i].arg[1])
           /\ (\A j \in DOMAIN TagList(call) : Registered(call, TagList(call)[j]))
                => ~DispatchError(outcome)

\* C3: when every mtype asked for is registered and no checker accepts,
\* check_is returns (False, msg, None) with msg the single message or the
\* list of the messages in order, and only False without return_metadata.
C3_AllReject ==
    (CheckIsDone /\ WellFormed(call)) => AllRejectFor(call)

\* The same, for calls that give the scitype or ask for mtypes of one scitype.
AllRejectOneScitype ==
    (CheckIsDone /\ WellFormed(call) /\ OneScitype(call)) => AllRejectFor(call)

\* C9: the msg of an invalid object has the shape of the mtype argument: a
\* string for a string, a list of len(mtype) for a list.
C9_MsgShape ==
    ( /\ CheckIsDone
      /\ call.return_metadata
      /\ outcome.kind = "return"
      /\ ~outcome.val.tuple[1].bool )
    => LET msg == outcome.val.tuple[2]
       IN  /\ IsStr(call.mtype) => IsStr(msg)
           /\ IsList(call.mtype)
                => IsList(msg) /\ Len(msg.list) = Len(call.mtype.list)

----------------------------------------------------------------------------
\* The outcome of check_is with return_metadata=True on the arguments of the
\* check_raise call a.
CheckIsOf(a) ==
    check_is(check_dict, [obj |-> a.obj, mtype |-> a.mtype, scitype |-> a.scitype,
                          return_metadata |-> TRUE, var_name |-> a.var_name])

\* C4: check_raise returns True exactly when check_is with
\* return_metadata=True returns a triple whose first element is true; when it
\* is false check_raise raises a ValidationError carrying exactly msg; the
\* errors of check_is propagate unchanged; check_raise never returns False.
C4_CheckRaiseAgrees ==
    CheckRaiseDone =>
        LET r == CheckIsOf(call)
        IN  /\ (outcome.kind = "return" /\ outcome.val = PyBool(TRUE))
                 <=> (r.kind = "return" /\ r.val.tuple[1] = PyBool(TRUE))
            /\ (r.kind = "return" /\ r.val.tuple[1] = PyBool(FALSE))
                 => ValidationError(outcome) /\ outcome.val.arg = r.val.tuple[2]
            /\ r.kind = "raise" => outcome.kind = "raise" /\ outcome.val = r.val
            /\ outcome.kind = "return" => outcome.val = PyBool(TRUE)

\* A check_raise call raised a ValidationError carrying a list of two messages.
C4_Witness ==
    /\ CheckRaiseDone
    /\ ValidationError(outcome)
    /\ IsList(outcome.val.arg)
    /\ Len(outcome.val.arg.list) = 2

\* The keys registered under the scitype s, and those whose checker accepts obj.
KeysUnder(s) == {k \in Keys(check_dict) : k[2] = s}
AcceptingUnder(s, obj) ==
    {k \in KeysUnder(s) : CheckPassed(Checker(k, obj, FALSE, "obj"), FALSE)}

\* C5: for obj not None, mtype fails with a DispatchError without invoking a
\* checker when as_scitype is the scitype of no registry key; otherwise every
\* mtype registered under as_scitype is checked, and zero accepting checkers
\* give a DispatchError, two or more an InternalConsistencyError, and exactly
\* one the accepting mtype.
C5_MtypeOutcome ==
    (MtypeDone /\ ~call.obj.none) =>
        LET s == call.as_scitype
            k == Cardinality(AcceptingUnder(s, call.obj))
        IN  IF KeysUnder(s) = {}
            THEN DispatchError(outcome) /\ Checks(outcome) = <<>>
            ELSE /\ Len(Checks(outcome)) = Cardinality(KeysUnder(s))
                 /\ {Checks(outcome)[i].arg : i \in DOMAIN Checks(outcome)}
                        = KeysUnder(s)
                 /\ k = 0 => DispatchError(outcome)
                 /\ k >= 2 => InternalConsistencyError(outcome)
                 /\ k = 1 => /\ outcome.kind = "return"
                             /\ <<outcome.val, s>> \in AcceptingUnder(s, call.obj)

\* mtype returned B after checking A, which rejects, and B.
C5_Witness ==
    /\ MtypeDone
    /\ outcome.kind = "return"
    /\ outcome.val = PyStr("B")
    /\ Len(Checks(outcome)) = 2

\* C6: check_is fails with a DispatchError, and does not return False,
\* whenever it reaches an mtype whose (mtype, scitype) pair is not in the
\* registry, with or without return_metadata and whatever messages were
\* recorded before; also for a single string mtype.
C6_UnregisteredIsFatal ==
    (CheckIsDone /\ WellFormed(call)) =>
        \A i \in DOMAIN TagList(call) :
            ( /\ \A j \in 1..(i - 1) : /\ Registered(call, TagList(call)[j])
                                       /\ ~Accepts(call, TagList(call)[j])
              /\ ~Registered(call, TagList(call)[i]) )
            => Raised(outcome, "TypeError", {92})

\* check_is, asked for metadata, raised a DispatchError at the second mtype
\* after the checker of the first rejected.
C6_Witness ==
    /\ CheckIsDone
    /\ call.return_metadata
    /\ IsList(call.mtype)
    /\ Len(call.mtype.list) = 2
    /\ ~Registered(call, call.mtype.list[2])
    /\ DispatchError(outcome)
    /\ Len(Checks(outcome)) = 1
    /\ Len(Lookups(outcome)) = 2

\* C7: check_is accepts a string or a list of strings as mtype and fails
\* with an InputError for every other value, before any registry lookup or
\* checker invocation.
C7_InputError ==
    CheckIsDone =>
        IF WellFormed(call)
        THEN ~InputError(outcome)
        ELSE InputError(outcome) /\ outcome.trace = <<>>

\* check_is raised an InputError for [A, 123] although the checker of A is
\* registered and accepts obj.
C7_Witness ==
    /\ CheckIsDone
    /\ call.mtype = PyList(<<PyStr("A"), PyInt(123)>>)
    /\ call.scitype = PyNone
    /\ <<PyStr("A"), PyStr("Series")>> \in Keys(check_dict)
    /\ "A" \in call.obj.acc
    /\ InputError(outcome)

\* C8: mtype(None, as_scitype) returns None for every as_scitype, without
\* looking at the registry or invoking a checker.
C8_NonePassThrough ==
    (MtypeDone /\ call.obj.none) => outcome = Return(PyNone, <<>>)

\* mtype(None, ...) returned None for a scitype the registry does not have.
C8_Witness ==
    /\ MtypeDone
    /\ call.obj.none
    /\ call.as_scitype = PyStr("Other")
    /\ check_dict # <<>>
    /\ outcome.kind = "return"

\* The outcome of the call c on the registry d.
OutcomeOn(d, c) ==
    CASE c.op = "check_is" -> check_is(d, c)
      [] c.op = "check_raise" -> check_raise(d, c)
      [] c.op = "mtype" -> mtype(d, c)

\* C10: no call changes the registry: after any sequence of calls, whatever
\* their outcomes, it is the registry as built, and the outcome of a call is
\* the one its arguments give on the registry as built.
C10_RegistryFrame ==
    /\ check_dict = built
    /\ pc = "done" => outcome = OutcomeOn(built, call)

\* A second call ended in an InternalConsistencyError.
C10_Witness ==
    /\ pc = "done"
    /\ ncalls >= 2
    /\ InternalConsistencyError(outcome)

====
